---- MODULE Spec2Model ----
(***************************************************************************)
(* SkyChess search layer: MinimaxEngine, IterativeDeepeningMinimax and     *)
(* MCTSEngine (algorithms_core/engine) driven against the ChessGame        *)
(* position oracle (algorithms_core/game).                                 *)
(*                                                                         *)
(* A position is the sequence of move squares played from the initial      *)
(* position of a bounded game tree.  The rules library behind ChessGame is *)
(* represented by a family of trees: kd gives each position its type       *)
(* (moves available, game over or not, checkmate or not) and ev gives the  *)
(* evaluator's score of each position, from the side to move.              *)
(*                                                                         *)
(* Wall-clock time: every deadline test reads a monotonic clock, so the    *)
(* tests of one call answer "not expired" some number of times and then    *)
(* "expired" for ever.  budget is that number; clock counts the tests made.*)
(***************************************************************************)
EXTENDS Integers, Sequences, FiniteSets, TLC

VARIABLES
    kd,             \* rules oracle: position type per position class
    ev,             \* evaluator: score per position class
    engine,         \* which engine object was constructed
    use_quiescence, \* MinimaxEngine.use_quiescence
    objs,           \* ChessGame objects: the caller's game and the engine's working clone
    pc,             \* position of the running search call
    nodes_searched, \* SearchEngine._nodes_searched
    budget,         \* deadline tests that pass before the deadline (see above)
    clock,          \* deadline tests made so far in this call
    depth,          \* MinimaxEngine.search: depth
    legal,          \* search: legal_moves of the root
    idx,            \* MinimaxEngine.search: position of the root loop
    best_move,      \* MinimaxEngine.search: best_move
    best_score,     \* MinimaxEngine.search: best_score
    alpha,          \* MinimaxEngine.search: alpha
    scored,         \* history: score given to each root move so far; whether it was cut short;
                    \* whether _quiescence_search was entered after the last test passed
    nested,         \* MinimaxEngine.search was entered from _search_at_depth
    id_depth,       \* IterativeDeepeningMinimax.search: depth of the loop
    max_depth,      \* IterativeDeepeningMinimax.search: max_depth
    id_best,        \* IterativeDeepeningMinimax.search: best_move
    done_depth,     \* history: deepest iteration that ran uncut, and its move
    tree,           \* MCTS: the nodes of the search tree, by path from the root
    iterations,     \* MCTSEngine.search: iterations
    rollout_depth,  \* MCTSEngine.rollout_depth
    result,         \* what the last call returned or raised
    root,           \* history: the caller's position when the call was made
    entered,        \* history: _minimax and _quiescence_search entries made in this call
    note,           \* ChessMove notation: the last __str__ / from_uci call and its outcome
    seen,           \* history: what the last unlimited-time call on the caller's position returned
    other,          \* a second search call running on the same engine object at the same time
    rollout,        \* MCTSEngine._rollout: the last rollout made on its own, and its result
    bp,             \* MCTSEngine._backpropagate: the last call made on its own: its node,
                    \* its result and the tree it found
    persp,          \* Evaluator.evaluate_from_perspective: the last call and what it returned
    batch           \* GameRecordBatch: its records, and the last get_win_rate call on it

SearchVars == <<kd, ev, engine, use_quiescence, objs, pc, nodes_searched, budget, clock,
                depth, legal, idx, best_move, best_score, alpha, scored, nested, id_depth,
                max_depth, id_best, done_depth, tree, iterations, rollout_depth, result,
                root, entered>>

\* the variables of the calls made apart from a search
Apart == <<bp, persp, batch>>

vars == <<SearchVars, note, seen, other, rollout, Apart>>

(***************************************************************************)
(* Bounds of the model                                                     *)
(***************************************************************************)
MaxPly == 3       \* every game of the tree family ends within MaxPly plies
MaxDepth == 2     \* depth_limit arguments are 0..MaxDepth or None
MaxTicks == 4     \* finite time budgets are 0..MaxTicks deadline tests
MaxUciLen == 5    \* notation strings handed to from_uci have 0..MaxUciLen characters
MaxCalls == 2     \* _backpropagate is called on its own at most MaxCalls times
MaxRecords == 2   \* a GameRecordBatch holds at most MaxRecords records

(***************************************************************************)
(* Program constants                                                       *)
(***************************************************************************)
Inf == 1000000            \* math.inf / float('inf')
MATE_BASE == 20000        \* the checkmate score of _minimax
default_depth == 4        \* MinimaxEngine.default_depth
ID_DEFAULT_DEPTH == 10    \* IterativeDeepeningMinimax: max_depth when depth_limit is None
QUIESCENCE_DEPTH == 4     \* _minimax: depth handed to _quiescence_search
ROLLOUT_DEFAULT == 10     \* MCTSEngine.rollout_depth by default

\* Python's None: for a promotion, and for a move
NoPromotion == "None"
None == [sq |-> 0, promotion |-> NoPromotion]
Max(a, b) == IF a >= b THEN a ELSE b
Min(a, b) == IF a <= b THEN a ELSE b

(***************************************************************************)
(* The position oracle (ChessGame over the rules library)                  *)
(***************************************************************************)
PosTypes == {"play1", "play2", "promo2", "draw1", "mate", "stale"}
Scores == {-1, 0, 1}
KindSlots == 1..2
EvalSlots == 1..3
\* evaluators of the general specification
EvalSamples == { <<1, 1, -1>>, <<0, 0, 0>>, <<-1, 0, 1>> }

RECURSIVE Hash(_)
Hash(p) == IF p = <<>> THEN 0 ELSE 2 * Hash(SubSeq(p, 1, Len(p) - 1)) + p[Len(p)]

\* The type of position p.  Positions MaxPly plies deep end the game.
PosType(p) ==
    LET t == kd[(Hash(p) % 2) + 1]
    IN  IF Len(p) >= MaxPly /\ t \notin {"mate", "stale"} THEN "stale" ELSE t

\* ChessMove.__str__: the promotion letter is the first letter of the piece name
StrPromotion(pr) ==
    CASE pr = "queen" -> "q" [] pr = "rook" -> "r" [] pr = "bishop" -> "b"
      [] pr = "knight" -> "k" [] OTHER -> ""

\* ChessMove.from_uci: the promotion a letter stands for (None when unknown)
UciPromotion(c) ==
    CASE c = "q" -> "queen" [] c = "r" -> "rook" [] c = "b" -> "bishop"
      [] c = "n" -> "knight" [] OTHER -> NoPromotion

\* The moves the rules library finds legal in p, as it writes them: square pair
\* and promotion letter
LibMoves(p) ==
    LET t == PosType(p)
    IN  CASE t \in {"play1", "draw1"} -> << [sq |-> 1, letter |-> ""] >>
          [] t = "play2" -> << [sq |-> 1, letter |-> ""], [sq |-> 2, letter |-> ""] >>
          [] t = "promo2" -> << [sq |-> 1, letter |-> "q"], [sq |-> 2, letter |-> "n"] >>
          [] OTHER -> << >>

\* ChessGame.legal_moves: ChessMove.from_uci of every legal move
legal_moves(p) ==
    [i \in 1..Len(LibMoves(p)) |->
        [sq |-> LibMoves(p)[i].sq, promotion |-> UciPromotion(LibMoves(p)[i].letter)]]

\* ChessGame.step accepts m when the move written by str(m) is legal in p
StepOK(p, m) ==
    \E i \in 1..Len(LibMoves(p)) :
        /\ LibMoves(p)[i].sq = m.sq
        /\ LibMoves(p)[i].letter = StrPromotion(m.promotion)

\* ChessGame.step: the position after m
step(p, m) == Append(p, m.sq)

is_checkmate(p) == PosType(p) = "mate"
is_game_over(p) == PosType(p) \in {"mate", "stale", "draw1"}

\* Evaluator.evaluate(game.state): score of p from the side to move
evaluate(p) == ev[(Hash(p) % 3) + 1]

\* board.is_capture(m) or board.gives_check(m): a move that mates gives check;
\* of the others, those to the odd square capture
Tactical(p, m) == PosType(step(p, m)) = "mate" \/ m.sq % 2 = 1

(***************************************************************************)
(* MinimaxEngine: the recursion.  Every operator threads the node counter  *)
(* and the clock, and returns [score, nodes, clk, cut, err, late]: cut      *)
(* tells that a deadline test expired below, err that step() raised        *)
(* ValueError, late that _quiescence_search was entered after the last     *)
(* deadline test the call passes (the deadline lies anywhere between that  *)
(* test and the next one).                                                 *)
(***************************************************************************)
Expired(clk) == clk >= budget

Ret(score, nodes, clk, c, e, l) ==
    [score |-> score, nodes |-> nodes, clk |-> clk, cut |-> c, err |-> e, late |-> l]

RECURSIVE quiescence_search(_, _, _, _, _, _)
RECURSIVE quiescence_loop(_, _, _, _, _, _, _, _)

\* MinimaxEngine._quiescence_search, the loop over tactical_moves from the i-th on
quiescence_loop(p, a, b, d, moves, i, nodes, clk) ==
    IF i > Len(moves) THEN Ret(a, nodes, clk, FALSE, FALSE, FALSE)
    ELSE IF ~StepOK(p, moves[i]) THEN Ret(0, nodes, clk, FALSE, TRUE, FALSE)
    ELSE LET r == quiescence_search(step(p, moves[i]), -b, -a, d - 1, nodes, clk)
             score == -r.score
         IN  IF r.err THEN r
             ELSE IF score >= b THEN Ret(b, r.nodes, r.clk, FALSE, FALSE, FALSE)
             ELSE quiescence_loop(p, Max(a, score), b, d, moves, i + 1, r.nodes, r.clk)

\* MinimaxEngine._quiescence_search: it makes no deadline test, so the clock
\* stands still below it and the entry alone decides late
quiescence_search(p, a, b, d, nodes, clk) ==
    LET n1 == nodes + 1
        stand_pat == evaluate(p)
        a1 == IF stand_pat > a THEN stand_pat ELSE a
        tactical_moves == SelectSeq(legal_moves(p), LAMBDA m : Tactical(p, m))
    IN  IF stand_pat >= b THEN Ret(b, n1, clk, FALSE, FALSE, Expired(clk))
        ELSE IF d = 0 THEN Ret(stand_pat, n1, clk, FALSE, FALSE, Expired(clk))
        ELSE IF tactical_moves = << >> THEN Ret(stand_pat, n1, clk, FALSE, FALSE, Expired(clk))
        ELSE [quiescence_loop(p, a1, b, d, tactical_moves, 1, n1, clk)
                EXCEPT !.late = @ \/ Expired(clk)]

RECURSIVE minimax(_, _, _, _, _, _, _)
RECURSIVE max_loop(_, _, _, _, _, _, _, _)
RECURSIVE min_loop(_, _, _, _, _, _, _, _)

\* MinimaxEngine._minimax, maximizing branch: the loop from the i-th move on
max_loop(p, d, a, b, i, max_eval, nodes, clk) ==
    IF i > Len(legal_moves(p)) THEN Ret(max_eval, nodes, clk, FALSE, FALSE, FALSE)
    ELSE IF ~StepOK(p, legal_moves(p)[i]) THEN Ret(0, nodes, clk, FALSE, TRUE, FALSE)
    ELSE LET r == minimax(step(p, legal_moves(p)[i]), d - 1, a, b, FALSE, nodes, clk)
             me == Max(max_eval, r.score)
             a1 == Max(a, r.score)
         IN  IF r.err THEN r
             ELSE IF b <= a1 THEN Ret(me, r.nodes, r.clk, r.cut, FALSE, r.late)
             ELSE LET rest == max_loop(p, d, a1, b, i + 1, me, r.nodes, r.clk)
                  IN  [rest EXCEPT !.cut = @ \/ r.cut, !.late = @ \/ r.late]

\* a minimizing branch that takes its cutoff after the first move, whatever
\* alpha and beta are
min_loop_eager(p, d, a, b, i, min_eval, nodes, clk) ==
    IF i > Len(legal_moves(p)) THEN Ret(min_eval, nodes, clk, FALSE, FALSE, FALSE)
    ELSE IF ~StepOK(p, legal_moves(p)[i]) THEN Ret(0, nodes, clk, FALSE, TRUE, FALSE)
    ELSE LET r == minimax(step(p, legal_moves(p)[i]), d - 1, a, b, TRUE, nodes, clk)
         IN  IF r.err THEN r
             ELSE Ret(Min(min_eval, r.score), r.nodes, r.clk, r.cut, FALSE, r.late)

\* MinimaxEngine._minimax, minimizing branch: the loop from the i-th move on
min_loop(p, d, a, b, i, min_eval, nodes, clk) ==
    IF i > Len(legal_moves(p)) THEN Ret(min_eval, nodes, clk, FALSE, FALSE, FALSE)
    ELSE IF ~StepOK(p, legal_moves(p)[i]) THEN Ret(0, nodes, clk, FALSE, TRUE, FALSE)
    ELSE LET r == minimax(step(p, legal_moves(p)[i]), d - 1, a, b, TRUE, nodes, clk)
             me == Min(min_eval, r.score)
             b1 == Min(b, r.score)
         IN  IF r.err THEN r
             ELSE IF b1 <= a THEN Ret(me, r.nodes, r.clk, r.cut, FALSE, r.late)
             ELSE LET rest == min_loop(p, d, a, b1, i + 1, me, r.nodes, r.clk)
                  IN  [rest EXCEPT !.cut = @ \/ r.cut, !.late = @ \/ r.late]

\* The score _minimax gives a position without legal moves that is not game over
NoMovesScore(p, d) ==
    IF is_checkmate(p) THEN -MATE_BASE + (default_depth - d) ELSE 0

\* MinimaxEngine._minimax
minimax(p, d, a, b, maximizing_player, nodes, clk) ==
    LET n1 == nodes + 1
        c1 == clk + 1
    IN  IF Expired(clk) THEN Ret(0, n1, c1, TRUE, FALSE, FALSE)
        ELSE IF d = 0 \/ is_game_over(p) THEN
            IF use_quiescence /\ d = 0 /\ ~is_game_over(p)
            THEN quiescence_search(p, a, b, QUIESCENCE_DEPTH, n1, c1)
            ELSE Ret(evaluate(p), n1, c1, FALSE, FALSE, FALSE)
        ELSE IF legal_moves(p) = << >> THEN Ret(NoMovesScore(p, d), n1, c1, FALSE, FALSE, FALSE)
        ELSE IF maximizing_player THEN max_loop(p, d, a, b, 1, -Inf, n1, c1)
        ELSE min_loop(p, d, a, b, 1, Inf, n1, c1)

(***************************************************************************)
(* ChessMove notation.  A string is a sequence of characters; a ChessMove  *)
(* is [from_square, to_square, promotion] with squares of two characters.  *)
(***************************************************************************)
Files == {"a", "e"}
Ranks == {"7", "8"}
Squares == {<<f, r>> : f \in Files, r \in Ranks}
\* the promotions a move of the rules library can carry
Promotions == {NoPromotion, "queen", "rook", "bishop", "knight"}
ChessMoves == [from_square : Squares, to_square : Squares, promotion : Promotions]
\* characters of the notation strings tried on from_uci
Chars == {"e", "7", "q", "n", "N", "x"}
RECURSIVE TextsOf(_)
TextsOf(n) == IF n = 0 THEN {<< >>} ELSE {Append(u, c) : u \in TextsOf(n - 1), c \in Chars}
Texts == UNION {TextsOf(n) : n \in 0..MaxUciLen}

\* str.lower() of one character
Lower(c) == IF c = "N" THEN "n" ELSE c

\* ChessMove.__str__
str(m) ==
    IF m.promotion # NoPromotion
    THEN m.from_square \o m.to_square \o << Lower(StrPromotion(m.promotion)) >>
    ELSE m.from_square \o m.to_square

NoMove == [from_square |-> << >>, to_square |-> << >>, promotion |-> NoPromotion]

\* ChessMove.from_uci: the move made of uci, or ValueError raised
from_uci(uci) ==
    IF Len(uci) = 4
    THEN [raised |-> FALSE,
          move |-> [from_square |-> SubSeq(uci, 1, 2), to_square |-> SubSeq(uci, 3, 4),
                    promotion |-> NoPromotion]]
    ELSE IF Len(uci) = 5
    THEN [raised |-> FALSE,
          move |-> [from_square |-> SubSeq(uci, 1, 2), to_square |-> SubSeq(uci, 3, 4),
                    promotion |-> UciPromotion(Lower(uci[5]))]]
    ELSE [raised |-> TRUE, move |-> NoMove]

\* no notation call made
NoNote == [op |-> "none", move |-> NoMove, text |-> << >>, raised |-> FALSE, out |-> NoMove]

(***************************************************************************)
(* Objects and calls                                                       *)
(***************************************************************************)
Engines == {"minimax", "id", "mcts"}
\* time_limit arguments, as budgets; Inf is time_limit = None
TimeLimits == (0..MaxTicks) \cup {Inf}
\* depth_limit arguments: an integer, or None (given = FALSE)
DepthLimits == {[given |-> TRUE, v |-> d] : d \in 0..MaxDepth} \cup {[given |-> FALSE, v |-> 0]}
RolloutDepths == {1, ROLLOUT_DEFAULT}
Idle == pc = "idle"
Ended == pc \in {"returned", "raised"}

\* clone() that hands back the object itself instead of a copy
clone_aliased(o, fresh) == o

\* ChessGame.clone: the object that holds the copy (o is copied into a fresh object)
clone(o, fresh) == fresh

\* _reset_stats that leaves the counter as it is
reset_stats_kept == nodes_searched

\* SearchEngine._reset_stats
reset_stats == 0

\* no second call; own is, as history, the time budget the first call was given
NoOther == [pc |-> "none", depth |-> 0, own |-> 0, result |-> None]

\* no rollout made
NoRollout == [kind |-> "none", start |-> << >>, end |-> << >>, result |-> 0]

\* GameRecordBatch(): no records, get_win_rate not called
NoBatch == [records |-> << >>, known |-> FALSE, agent |-> "", rate |-> [num |-> 0, den |-> 1]]

\* no evaluate_from_perspective call made
NoPersp == [known |-> FALSE, state |-> << >>, color |-> TRUE, out |-> 0]

\* no _backpropagate call made on its own
NoBp == [known |-> FALSE, node |-> << >>, result |-> 0, before |-> << >>]

\* no outcome of an earlier call kept
NoSeen == [known |-> FALSE, root |-> << >>, param |-> 0, move |-> None, nodes |-> 0]

\* The locals of a search call and the engine's working clone, before any call
NoCall ==
    /\ budget = 0
    /\ clock = 0
    /\ depth = 0
    /\ legal = << >>
    /\ idx = 0
    /\ best_move = None
    /\ best_score = -Inf
    /\ alpha = -Inf
    /\ scored = << >>
    /\ nested = FALSE
    /\ id_depth = 0
    /\ max_depth = 0
    /\ id_best = None
    /\ done_depth = [depth |-> 0, move |-> None]
    /\ tree = << >>
    /\ iterations = 0
    /\ result = None
    /\ root = << >>
    /\ entered = 0

\* The same, as the effect of discarding them
forget ==
    /\ budget' = 0
    /\ clock' = 0
    /\ depth' = 0
    /\ legal' = << >>
    /\ idx' = 0
    /\ best_move' = None
    /\ best_score' = -Inf
    /\ alpha' = -Inf
    /\ scored' = << >>
    /\ nested' = FALSE
    /\ id_depth' = 0
    /\ max_depth' = 0
    /\ id_best' = None
    /\ done_depth' = [depth |-> 0, move |-> None]
    /\ tree' = << >>
    /\ iterations' = 0
    /\ result' = None
    /\ root' = << >>
    /\ entered' = 0

\* The state after construction of the game, the evaluator and one engine
InitOf(trees, engines) ==
    /\ \E tr \in trees : kd = tr[1] /\ ev = tr[2]
    /\ engine \in engines
    /\ use_quiescence \in (IF engine = "mcts" THEN {FALSE} ELSE BOOLEAN)
    /\ rollout_depth \in (IF engine = "mcts" THEN RolloutDepths ELSE {ROLLOUT_DEFAULT})
    /\ objs = [game |-> << >>, cloned |-> << >>]
    /\ pc = "idle"
    /\ nodes_searched = 0
    /\ NoCall
    /\ note = NoNote
    /\ seen = NoSeen
    /\ other = NoOther
    /\ rollout = NoRollout
    /\ bp = NoBp
    /\ persp = NoPersp
    /\ batch = NoBatch

Init == InitOf([KindSlots -> PosTypes] \X EvalSamples, Engines)

\* The caller plays a move on its own game (ChessGame.step); the locals of the
\* call that returned are gone
caller_step ==
    /\ Idle \/ Ended
    /\ \E i \in 1..Len(legal_moves(objs.game)) :
          /\ StepOK(objs.game, legal_moves(objs.game)[i])
          /\ objs' = [game |-> step(objs.game, legal_moves(objs.game)[i]), cloned |-> << >>]
    /\ pc' = "idle"
    /\ forget
    /\ seen' = NoSeen
    /\ UNCHANGED <<Apart, kd, ev, engine, use_quiescence, rollout_depth, nodes_searched, note, other, rollout>>

\* The call is over: its locals and the working clone are dropped; the engine
\* keeps its fields
call_ends ==
    /\ Ended
    /\ pc' = "idle"
    /\ objs' = [objs EXCEPT !.cloned = << >>]
    /\ forget
    /\ UNCHANGED <<Apart, kd, ev, engine, use_quiescence, rollout_depth, nodes_searched, note, seen, other, rollout>>

(***************************************************************************)
(* MinimaxEngine.search and IterativeDeepeningMinimax.search               *)
(***************************************************************************)
IdVars == <<id_depth, max_depth, id_best, done_depth>>
LoopVars == <<idx, best_move, best_score, alpha, scored>>
MctsVars == <<tree, iterations>>
Config == <<kd, ev, engine, use_quiescence, rollout_depth, note, seen, other, rollout, Apart>>

\* search raises ValueError
raise == pc' = "raised" /\ result' = None

\* MinimaxEngine.search returns mv: to the caller, or (lines 292-294) to the loop
\* of IterativeDeepeningMinimax.search, which keeps it and goes one ply deeper.
\* complete tells that every root move was scored and no deadline test expired.
minimax_return(mv, n, d, complete) ==
    IF n
    THEN /\ pc' = "id_loop"
         /\ result' = None
         /\ id_best' = IF mv # None THEN mv ELSE id_best
         /\ id_depth' = id_depth + 1
         /\ done_depth' = IF complete THEN [depth |-> d, move |-> mv] ELSE done_depth
         /\ UNCHANGED max_depth
    ELSE /\ pc' = "returned"
         /\ result' = mv
         /\ UNCHANGED IdVars

\* the single-move test never taken
only_one_never(moves) == FALSE

\* len(legal_moves) == 1: the only move is returned without a search
only_one(moves) == Len(moves) = 1

\* MinimaxEngine.search up to the root loop (lines 70-89), entered with time
\* budget tl and depth d, from the caller (n = FALSE) or from _search_at_depth
minimax_entry(tl, d, n) ==
    /\ nodes_searched' = reset_stats
    /\ budget' = tl
    /\ depth' = d
    /\ legal' = legal_moves(objs.game)
    /\ nested' = n
    /\ scored' = << >>
    /\ idx' = 1
    /\ best_move' = None
    /\ best_score' = -Inf
    /\ alpha' = -Inf
    /\ IF legal_moves(objs.game) = << >>
       THEN raise /\ UNCHANGED IdVars
       ELSE IF only_one(legal_moves(objs.game))
       THEN minimax_return(legal_moves(objs.game)[1], n, d, TRUE)
       ELSE pc' = "mm_loop" /\ result' = None /\ UNCHANGED IdVars

\* MinimaxEngine.search(game, time_limit, depth_limit)
search_minimax ==
    /\ Idle
    /\ engine = "minimax"
    /\ \E tl \in TimeLimits, dl \in DepthLimits :
          minimax_entry(tl, IF dl.given THEN dl.v ELSE default_depth, FALSE)
    /\ clock' = 0
    /\ root' = objs.game
    /\ entered' = 0
    /\ UNCHANGED <<Config, objs, MctsVars>>

\* MinimaxEngine.search, one pass of the root loop (lines 92-116) and, after the
\* last pass or a break, the return (line 118)
root_move ==
    /\ pc = "mm_loop"
    /\ LET move == legal[idx]
           pos == objs.game
           target == clone("game", "cloned")
       IN  IF ~StepOK(pos, move)
           THEN /\ raise
                /\ UNCHANGED <<objs, nodes_searched, entered, clock, LoopVars, IdVars>>
           ELSE LET r == minimax(step(pos, move), depth - 1, -Inf, -alpha, FALSE,
                                 nodes_searched, clock)
                    score == -r.score
                    bm == IF score > best_score THEN move ELSE best_move
                    c == r.cut \/ \E i \in 1..Len(scored) : scored[i].cut
                    last == idx = Len(legal)
                IN  /\ objs' = [objs EXCEPT ![target] = step(pos, move)]
                    /\ nodes_searched' = r.nodes
                    /\ entered' = entered + (r.nodes - nodes_searched)
                    /\ IF r.err
                       THEN /\ raise
                            /\ clock' = r.clk
                            /\ UNCHANGED <<LoopVars, IdVars>>
                       ELSE /\ clock' = r.clk + 1
                            /\ best_move' = bm
                            /\ best_score' = Max(best_score, score)
                            /\ alpha' = Max(alpha, score)
                            /\ scored' = Append(scored, [score |-> score, cut |-> r.cut,
                                                          late |-> r.late])
                            /\ IF Expired(r.clk) \/ last
                               THEN /\ minimax_return(bm, nested, depth, last /\ ~c)
                                    /\ idx' = idx
                               ELSE /\ pc' = "mm_loop"
                                    /\ idx' = idx + 1
                                    /\ UNCHANGED <<result, IdVars>>
    /\ UNCHANGED <<Config, budget, depth, legal, nested, MctsVars, root>>

\* IterativeDeepeningMinimax.search(game, time_limit, depth_limit), lines 270-283
search_id ==
    /\ Idle
    /\ engine = "id"
    /\ \E tl \in TimeLimits, dl \in DepthLimits :
          /\ budget' = tl
          /\ max_depth' = IF dl.given THEN dl.v ELSE ID_DEFAULT_DEPTH
    /\ nodes_searched' = reset_stats
    /\ clock' = 0
    /\ id_best' = None
    /\ id_depth' = 1
    /\ done_depth' = [depth |-> 0, move |-> None]
    /\ legal' = legal_moves(objs.game)
    /\ root' = objs.game
    /\ entered' = 0
    /\ nested' = FALSE
    /\ IF legal_moves(objs.game) = << >> THEN raise
       ELSE IF only_one(legal_moves(objs.game))
       THEN pc' = "returned" /\ result' = legal_moves(objs.game)[1]
       ELSE pc' = "id_loop" /\ result' = None
    /\ UNCHANGED <<Config, objs, depth, LoopVars, MctsVars>>

\* line 298 without the fall back on the first legal move
id_return_no_fallback ==
    /\ pc' = "returned"
    /\ result' = id_best
    /\ UNCHANGED <<nodes_searched, budget, depth, legal, nested, LoopVars, IdVars>>

\* IterativeDeepeningMinimax.search, line 298
id_return ==
    /\ pc' = "returned"
    /\ result' = IF id_best # None THEN id_best ELSE legal[1]
    /\ UNCHANGED <<nodes_searched, budget, depth, legal, nested, LoopVars, IdVars>>

\* IterativeDeepeningMinimax.search, one pass of the loop (lines 286-296): the
\* deadline test, then _search_at_depth, which enters MinimaxEngine.search
id_iteration ==
    /\ pc = "id_loop"
    /\ IF id_depth > max_depth
       THEN id_return /\ UNCHANGED clock
       ELSE /\ clock' = clock + 1
            /\ IF Expired(clock) THEN id_return
               ELSE minimax_entry(budget, id_depth, TRUE)
    /\ UNCHANGED <<Config, objs, MctsVars, root, entered>>

(***************************************************************************)
(* MCTS.  A node is named by its path from the root node; its position is  *)
(* the root position followed by that path, and its parent field holds the *)
(* name of the node it was created under.  value and the rollout results   *)
(* are kept in thousandths.                                                *)
(***************************************************************************)
Front(q) == SubSeq(q, 1, Len(q) - 1)
Last(q) == q[Len(q)]

\* GameState.current_player / ChessGame.turn: white moves first
turn(p) == IF Len(p) % 2 = 0 THEN "white" ELSE "black"

\* GameState._from_board: result of a position that is game over
game_result(p) ==
    IF is_checkmate(p)
    THEN (IF turn(p) = "white" THEN "black_win" ELSE "white_win")
    ELSE "draw"

\* parent = None: the root node has no parent
NoParent == << 0 >>

\* MCTSNode.__init__
MCTSNode(move, parent, p) ==
    [move |-> move, parent |-> parent, visits |-> 0, value |-> 0, children |-> << >>,
     untried_moves |-> legal_moves(p),
     is_terminal |-> (legal_moves(p) = << >> \/ is_game_over(p))]

is_leaf(t, q) == t[q].children = << >>

\* natural logarithm in thousandths, math.log(n) for the visit counts that occur
LnMilli(n) ==
    IF n <= 12
    THEN <<0, 693, 1099, 1386, 1609, 1792, 1946, 2079, 2197, 2303, 2398, 2485>>[n]
    ELSE 2565

RECURSIVE ISqrtIn(_, _, _)
\* the k in lo..hi with k*k <= x < (k+1)*(k+1), by bisection
ISqrtIn(x, lo, hi) ==
    IF lo >= hi THEN lo
    ELSE LET mid == (lo + hi + 1) \div 2
         IN  IF mid * mid <= x THEN ISqrtIn(x, mid, hi) ELSE ISqrtIn(x, lo, mid - 1)

\* math.sqrt, rounded down
ISqrt(x) == ISqrtIn(x, 0, 2048)

\* MCTSNode.best_child: the UCT score of child c of node q (lines 82-89)
uct_score(t, q, c, w) ==
    LET ch == t[Append(q, c)]
    IN  IF ch.visits = 0 THEN Inf
        ELSE (ch.value \div ch.visits)
             + (w * ISqrt((LnMilli(t[q].visits) * 1000) \div ch.visits)) \div 1000

\* best_child = None
NoChild == 0

RECURSIVE best_from(_, _, _, _, _, _)
best_from(t, q, w, i, best_sc, best) ==
    IF i > Len(t[q].children) THEN best
    ELSE LET sc == uct_score(t, q, t[q].children[i], w)
         IN  IF sc > best_sc THEN best_from(t, q, w, i + 1, sc, t[q].children[i])
             ELSE best_from(t, q, w, i + 1, best_sc, best)

\* a best_child that finds no child
best_child_none(t, q, w) == NoChild

\* MCTSNode.best_child(exploration_weight): the square of the chosen child
best_child(t, q, w) == best_from(t, q, w, 1, -Inf, NoChild)

\* MCTSEngine.exploration_weight, in thousandths
exploration_weight == 1414

\* MCTSEngine._mcts_iteration, the test of the selection loop (line 203)
descend(t, q) == ~is_leaf(t, q) /\ ~t[q].is_terminal

RECURSIVE select(_, _, _)
\* MCTSEngine._mcts_iteration, selection (lines 200-205): the node reached from
\* q, or err when step() raised on the way
select(t, q, base) ==
    IF descend(t, q)
    THEN LET c == best_child(t, q, exploration_weight)
         IN  IF c = NoChild \/ ~StepOK(base \o q, t[Append(q, c)].move)
             THEN [node |-> q, err |-> TRUE]
             ELSE select(t, Append(q, c), base)
    ELSE [node |-> q, err |-> FALSE]

\* an expansion that reads the last untried move and leaves it in the list
expand_no_pop(t, q, base) ==
    LET um == t[q].untried_moves
        move == um[Len(um)]
        t1 == [t EXCEPT ![q].children = Append(@, move.sq)]
    IN  (Append(q, move.sq) :> MCTSNode(move, q, step(base \o q, move))) @@ t1

\* MCTSEngine._mcts_iteration, expansion (lines 208-213) of node q by the move
\* popped from untried_moves
expand(t, q, base) ==
    LET um == t[q].untried_moves
        move == um[Len(um)]
        t1 == [t EXCEPT ![q].untried_moves = SubSeq(um, 1, Len(um) - 1),
                        ![q].children = Append(@, move.sq)]
    IN  (Append(q, move.sq) :> MCTSNode(move, q, step(base \o q, move))) @@ t1

\* marks a rollout in which step() raised ValueError
RolloutError == << 0 >>

RECURSIVE rollout_ends(_, _)
\* The positions a random rollout of at most d more moves can end in, and
\* RolloutError when step() can raise (lines 243-249)
rollout_ends(p, d) ==
    IF is_game_over(p) \/ d = 0 \/ legal_moves(p) = << >> THEN {p}
    ELSE UNION { IF StepOK(p, legal_moves(p)[i])
                 THEN rollout_ends(step(p, legal_moves(p)[i]), d - 1)
                 ELSE {RolloutError} : i \in 1..Len(legal_moves(p)) }

\* Color is an Enum without __bool__: every member is true
Truthy(color) == TRUE

\* MCTSEngine._random_rollout, lines 252-268: the result at the end position p
rollout_result(p) ==
    IF is_game_over(p)
    THEN CASE game_result(p) = "white_win" -> (IF Truthy(turn(p)) THEN 1000 ELSE -1000)
           [] game_result(p) = "black_win" -> (IF Truthy(turn(p)) THEN -1000 ELSE 1000)
           [] OTHER -> 0
    ELSE Max(-1000, Min(1000, evaluate(p)))

\* _backpropagate that updates the node it starts from and stops there
backpropagate_node_only(t, q, r) ==
    [t EXCEPT ![q].visits = @ + 1, ![q].value = @ + r]

RECURSIVE backpropagate_same_sign(_, _, _)
\* _backpropagate that hands the same result to every ancestor
backpropagate_same_sign(t, q, r) ==
    LET t1 == [t EXCEPT ![q].visits = @ + 1, ![q].value = @ + r]
    IN  IF t[q].parent = NoParent THEN t1 ELSE backpropagate_same_sign(t1, t[q].parent, r)

RECURSIVE backpropagate(_, _, _)
\* MCTSEngine._backpropagate with MCTSNode.update
backpropagate(t, q, r) ==
    LET t1 == [t EXCEPT ![q].visits = @ + 1, ![q].value = @ + r]
    IN  IF t[q].parent = NoParent THEN t1 ELSE backpropagate(t1, t[q].parent, -r)

\* MCTSEngine.search(game, time_limit, depth_limit), lines 166-182
search_mcts ==
    /\ Idle
    /\ engine = "mcts"
    /\ budget' \in 0..MaxTicks
    /\ nodes_searched' = reset_stats
    /\ clock' = 0
    /\ root' = objs.game
    /\ legal' = legal_moves(objs.game)
    /\ iterations' = 0
    /\ entered' = 0
    /\ LET rootnode == MCTSNode(None, NoParent, objs.game)
       IN  /\ tree' = (<< >> :> rootnode)
           /\ IF rootnode.is_terminal THEN raise
              ELSE IF only_one(rootnode.untried_moves)
              THEN pc' = "returned" /\ result' = rootnode.untried_moves[1]
              ELSE pc' = "mcts_loop" /\ result' = None
    /\ UNCHANGED <<Config, objs, depth, nested, LoopVars, IdVars>>

\* MCTSEngine.search, one pass of the loop (lines 183-185): _mcts_iteration on a
\* clone of the game
mcts_iteration ==
    /\ pc = "mcts_loop"
    /\ ~Expired(clock)
    /\ clock' = clock + 1
    /\ LET target == clone("game", "cloned")
           base == objs.game
           sel == select(tree, << >>, base)
           q == sel.node
           grow == ~tree[q].is_terminal /\ tree[q].untried_moves # << >>
           move == tree[q].untried_moves[Len(tree[q].untried_moves)]
           t1 == IF grow THEN expand(tree, q, base) ELSE tree
           q1 == IF grow THEN Append(q, move.sq) ELSE q
       IN  IF sel.err \/ (grow /\ ~StepOK(base \o q, move))
           THEN /\ raise
                /\ objs' = [objs EXCEPT ![target] = base \o q]
                /\ UNCHANGED MctsVars
           ELSE /\ objs' = [objs EXCEPT ![target] = base \o q1]
                /\ \E e \in rollout_ends(base \o q1, rollout_depth) :
                      IF e = RolloutError
                      THEN raise /\ UNCHANGED MctsVars
                      ELSE /\ tree' = backpropagate(t1, q1, rollout_result(e))
                           /\ iterations' = iterations + 1
                           /\ pc' = "mcts_loop"
                           /\ result' = None
    /\ UNCHANGED <<Config, nodes_searched, budget, depth, legal, nested, LoopVars,
                   IdVars, root, entered>>

RECURSIVE most_visited_last(_, _, _, _)
\* a maximum that keeps the last child with the most visits
most_visited_last(t, i, best_v, best) ==
    IF i > Len(t[<< >>].children) THEN best
    ELSE LET ch == t[<< t[<< >>].children[i] >>]
         IN  IF best = None \/ ch.visits >= best_v
             THEN most_visited_last(t, i + 1, ch.visits, ch.move)
             ELSE most_visited_last(t, i + 1, best_v, best)

RECURSIVE most_visited(_, _, _, _)
\* max(root.children.values(), key=visits): the first child with the most visits
most_visited(t, i, best_v, best) ==
    IF i > Len(t[<< >>].children) THEN best
    ELSE LET ch == t[<< t[<< >>].children[i] >>]
         IN  IF best = None \/ ch.visits > best_v
             THEN most_visited(t, i + 1, ch.visits, ch.move)
             ELSE most_visited(t, i + 1, best_v, best)

\* MCTSEngine.search, the end of the loop and lines 188-189; max() of no children
\* raises ValueError
mcts_return ==
    /\ pc = "mcts_loop"
    /\ Expired(clock)
    /\ clock' = clock + 1
    /\ IF tree[<< >>].children = << >> THEN raise
       ELSE pc' = "returned" /\ result' = most_visited(tree, 1, 0, None)
    /\ UNCHANGED <<Config, objs, nodes_searched, budget, depth, legal, nested, LoopVars,
                   IdVars, MctsVars, root, entered>>

Next ==
    \/ caller_step
    \/ call_ends
    \/ search_minimax
    \/ root_move
    \/ search_id
    \/ id_iteration
    \/ search_mcts
    \/ mcts_iteration
    \/ mcts_return

Spec == Init /\ [][Next]_vars

(***************************************************************************)
(* Repeated calls: the caller keeps what an unlimited-time call returned   *)
(* and calls the same engine again on the same position.                   *)
(***************************************************************************)
\* the depth argument of the call: the search depth, or the depth limit of
\* iterative deepening
depth_param == IF engine = "id" THEN max_depth ELSE depth

\* The call is over, as call_ends; the caller keeps the outcome of a call that
\* returned with time_limit = None
call_ends_kept ==
    /\ Ended
    /\ pc' = "idle"
    /\ objs' = [objs EXCEPT !.cloned = << >>]
    /\ forget
    /\ seen' = IF pc = "returned" /\ budget = Inf
               THEN [known |-> TRUE, root |-> root, param |-> depth_param,
                     move |-> result, nodes |-> nodes_searched]
               ELSE seen
    /\ UNCHANGED <<Apart, kd, ev, engine, use_quiescence, rollout_depth, nodes_searched, note, other, rollout>>

\* the trees of the repeated calls
RepeatTrees ==
    {<<"play2", "play1">>, <<"play1", "play2">>, <<"play2", "mate">>} \X EvalSamples

InitRepeat == InitOf(RepeatTrees, {"minimax", "id"})

NextRepeat ==
    \/ caller_step
    \/ call_ends_kept
    \/ search_minimax
    \/ root_move
    \/ search_id
    \/ id_iteration

SpecRepeat == InitRepeat /\ [][NextRepeat]_vars

(***************************************************************************)
(* Two calls of MinimaxEngine.search on one engine object, interleaved.    *)
(* _start_time, _time_limit and _nodes_searched are fields of the engine:  *)
(* both calls write and read budget, clock and nodes_searched.  The first  *)
(* call runs by search_minimax and root_move; the second enters while the  *)
(* first is in its root loop, and its own root loop runs in one step.      *)
(***************************************************************************)
RECURSIVE root_loop(_, _, _, _, _, _, _, _)
\* MinimaxEngine.search, the root loop (lines 92-118) from the i-th move on:
\* the move returned, and the node counter and the clock after it
root_loop(p, d, i, bm, bs, al, nodes, clk) ==
    IF i > Len(legal_moves(p)) THEN [move |-> bm, nodes |-> nodes, clk |-> clk]
    ELSE LET move == legal_moves(p)[i]
             r == minimax(step(p, move), d - 1, -Inf, -al, FALSE, nodes, clk)
             score == -r.score
             bm1 == IF score > bs THEN move ELSE bm
         IN  IF Expired(r.clk) THEN [move |-> bm1, nodes |-> r.nodes, clk |-> r.clk + 1]
             ELSE root_loop(p, d, i + 1, bm1, Max(bs, score), Max(al, score),
                            r.nodes, r.clk + 1)

\* MinimaxEngine.search after lines 70-72, on a position with legal moves
search_rest(p, d, nodes, clk) ==
    IF only_one(legal_moves(p))
    THEN [move |-> legal_moves(p)[1], nodes |-> nodes, clk |-> clk]
    ELSE root_loop(p, d, 1, None, -Inf, -Inf, nodes, clk)

\* The second call enters search on the same game, with the depth limit of the
\* first and a time limit of its own: lines 70-72
other_entry ==
    /\ pc = "mm_loop"
    /\ engine = "minimax"
    /\ other.pc = "none"
    /\ \E tl \in TimeLimits :
          /\ budget' = tl
          /\ other' = [pc |-> "entered", own |-> budget, result |-> None, depth |-> depth]
    /\ clock' = 0
    /\ nodes_searched' = reset_stats
    /\ UNCHANGED <<Apart, kd, ev, engine, use_quiescence, rollout_depth, note, seen, rollout, objs, pc,
                   depth, legal, nested, result, root, entered, LoopVars, IdVars, MctsVars>>

\* The second call runs lines 74-118 and returns
other_run ==
    /\ other.pc = "entered"
    /\ LET out == search_rest(root, other.depth, nodes_searched, clock)
       IN  /\ other' = [other EXCEPT !.pc = "returned", !.result = out.move]
           /\ nodes_searched' = out.nodes
           /\ clock' = out.clk
    /\ UNCHANGED <<Apart, kd, ev, engine, use_quiescence, rollout_depth, note, seen, rollout, objs, pc,
                   budget, depth, legal, nested, result, root, entered, LoopVars, IdVars,
                   MctsVars>>

\* trees in which step() accepts every legal move
PlainTrees == [KindSlots -> PosTypes \ {"promo2"}] \X EvalSamples

InitConcurrent == InitOf(RepeatTrees, {"minimax"})

NextConcurrent ==
    \/ search_minimax
    \/ root_move
    \/ other_entry
    \/ other_run

SpecConcurrent == InitConcurrent /\ [][NextConcurrent]_vars

(***************************************************************************)
(* MinimaxEngine with the two `beta <= alpha` cutoffs (lines 172-173 and   *)
(* 183-184) deleted from _minimax: every loop runs over all legal moves.   *)
(***************************************************************************)
RECURSIVE minimax_full(_, _, _, _, _, _, _)
RECURSIVE full_max_loop(_, _, _, _, _, _, _, _)
RECURSIVE full_min_loop(_, _, _, _, _, _, _, _)

\* _minimax, maximizing branch without line 172-173
full_max_loop(p, d, a, b, i, max_eval, nodes, clk) ==
    IF i > Len(legal_moves(p)) THEN Ret(max_eval, nodes, clk, FALSE, FALSE, FALSE)
    ELSE IF ~StepOK(p, legal_moves(p)[i]) THEN Ret(0, nodes, clk, FALSE, TRUE, FALSE)
    ELSE LET r == minimax_full(step(p, legal_moves(p)[i]), d - 1, a, b, FALSE, nodes, clk)
         IN  IF r.err THEN r
             ELSE LET rest == full_max_loop(p, d, Max(a, r.score), b, i + 1,
                                            Max(max_eval, r.score), r.nodes, r.clk)
                  IN  [rest EXCEPT !.cut = @ \/ r.cut, !.late = @ \/ r.late]

\* _minimax, minimizing branch without lines 183-184
full_min_loop(p, d, a, b, i, min_eval, nodes, clk) ==
    IF i > Len(legal_moves(p)) THEN Ret(min_eval, nodes, clk, FALSE, FALSE, FALSE)
    ELSE IF ~StepOK(p, legal_moves(p)[i]) THEN Ret(0, nodes, clk, FALSE, TRUE, FALSE)
    ELSE LET r == minimax_full(step(p, legal_moves(p)[i]), d - 1, a, b, TRUE, nodes, clk)
         IN  IF r.err THEN r
             ELSE LET rest == full_min_loop(p, d, a, Min(b, r.score), i + 1,
                                            Min(min_eval, r.score), r.nodes, r.clk)
                  IN  [rest EXCEPT !.cut = @ \/ r.cut, !.late = @ \/ r.late]

\* _minimax over the loops without cutoffs
minimax_full(p, d, a, b, maximizing_player, nodes, clk) ==
    LET n1 == nodes + 1
        c1 == clk + 1
    IN  IF Expired(clk) THEN Ret(0, n1, c1, TRUE, FALSE, FALSE)
        ELSE IF d = 0 \/ is_game_over(p) THEN
            IF use_quiescence /\ d = 0 /\ ~is_game_over(p)
            THEN quiescence_search(p, a, b, QUIESCENCE_DEPTH, n1, c1)
            ELSE Ret(evaluate(p), n1, c1, FALSE, FALSE, FALSE)
        ELSE IF legal_moves(p) = << >> THEN Ret(NoMovesScore(p, d), n1, c1, FALSE, FALSE, FALSE)
        ELSE IF maximizing_player THEN full_max_loop(p, d, a, b, 1, -Inf, n1, c1)
        ELSE full_min_loop(p, d, a, b, 1, Inf, n1, c1)

RECURSIVE root_full(_, _, _, _, _, _, _, _)
\* MinimaxEngine.search, the root loop (lines 92-118) over that _minimax, from
\* the i-th move on: the move returned, best_score, the node counter, and
\* whether step() raised
root_full(p, d, i, bm, bs, al, nodes, clk) ==
    IF i > Len(legal_moves(p))
    THEN [move |-> bm, score |-> bs, nodes |-> nodes, err |-> FALSE]
    ELSE LET move == legal_moves(p)[i]
             r == minimax_full(step(p, move), d - 1, -Inf, -al, FALSE, nodes, clk)
             score == -r.score
             bm1 == IF score > bs THEN move ELSE bm
         IN  IF ~StepOK(p, move) \/ r.err
             THEN [move |-> None, score |-> bs, nodes |-> r.nodes, err |-> TRUE]
             ELSE IF Expired(r.clk)
             THEN [move |-> bm1, score |-> Max(bs, score), nodes |-> r.nodes, err |-> FALSE]
             ELSE root_full(p, d, i + 1, bm1, Max(bs, score), Max(al, score),
                            r.nodes, r.clk + 1)

\* MinimaxEngine.search(game, None, d) over that _minimax, on a position with
\* several legal moves
search_full(p, d) == root_full(p, d, 1, None, -Inf, -Inf, 0, 0)

(***************************************************************************)
(* The rollouts of MCTSEngine on their own: _random_rollout and            *)
(* _evaluation_rollout from any position of the tree.                      *)
(***************************************************************************)
RECURSIVE Reach(_)
\* the positions of the tree from p on
Reach(p) ==
    {p} \cup UNION {Reach(step(p, legal_moves(p)[i])) : i \in 1..Len(legal_moves(p))}

RECURSIVE best_by_evaluation(_, _, _, _)
\* _evaluation_rollout, lines 281-291: the move whose position the evaluator
\* scores highest, the earliest of them
best_by_evaluation(p, i, best_sc, best) ==
    IF i > Len(legal_moves(p)) THEN best
    ELSE LET sc == evaluate(step(p, legal_moves(p)[i]))
         IN  IF sc > best_sc THEN best_by_evaluation(p, i + 1, sc, legal_moves(p)[i])
             ELSE best_by_evaluation(p, i + 1, best_sc, best)

RECURSIVE evaluation_end(_, _)
\* _evaluation_rollout, lines 276-293: the position the rollout of at most d
\* more moves ends in
evaluation_end(p, d) ==
    IF is_game_over(p) \/ d = 0 \/ legal_moves(p) = << >> THEN p
    ELSE evaluation_end(step(p, best_by_evaluation(p, 1, -Inf, None)), d - 1)

\* MCTSEngine._random_rollout(game) for a game in position p
random_rollout ==
    /\ rollout.kind = "none"
    /\ \E p \in Reach(<< >>) : \E e \in rollout_ends(p, rollout_depth) \ {RolloutError} :
          rollout' = [kind |-> "random", start |-> p, end |-> e, result |-> rollout_result(e)]
    /\ UNCHANGED <<Apart, SearchVars, note, seen, other>>

\* MCTSEngine._evaluation_rollout(game) for a game in position p
evaluation_rollout ==
    /\ rollout.kind = "none"
    /\ \E p \in Reach(<< >>) :
          rollout' = [kind |-> "evaluation", start |-> p,
                      end |-> evaluation_end(p, rollout_depth),
                      result |-> rollout_result(evaluation_end(p, rollout_depth))]
    /\ UNCHANGED <<Apart, SearchVars, note, seen, other>>

InitRollout == InitOf(PlainTrees, {"mcts"})

NextRollout ==
    \/ random_rollout
    \/ evaluation_rollout

SpecRollout == InitRollout /\ [][NextRollout]_vars

(***************************************************************************)
(* The tree operations on their own: a caller builds a tree of MCTSNode    *)
(* objects over the game, calls _backpropagate on any node of it, and      *)
(* takes the final choice of MCTSEngine.search from it.                    *)
(***************************************************************************)
\* the results handed to _backpropagate, in thousandths
Results == {-1000, 1}

\* MCTSNode(game=game.clone()): the root node
make_root ==
    /\ Idle
    /\ tree = << >>
    /\ tree' = (<< >> :> MCTSNode(None, NoParent, objs.game))
    /\ UNCHANGED <<Config, objs, pc, nodes_searched, budget, clock, depth, legal, nested,
                   LoopVars, IdVars, iterations, result, root, entered>>

\* a move taken from the untried moves of a node q and made a child of it
attach_child ==
    /\ Idle
    /\ ~bp.known
    /\ \E q \in DOMAIN tree :
          /\ ~tree[q].is_terminal
          /\ tree[q].untried_moves # << >>
          /\ tree' = expand(tree, q, objs.game)
    /\ UNCHANGED <<Config, objs, pc, nodes_searched, budget, clock, depth, legal, nested,
                   LoopVars, IdVars, iterations, result, root, entered>>

\* MCTSEngine._backpropagate(node, result) for a node n of the tree
backpropagate_call ==
    /\ Idle
    /\ tree # << >>
    /\ tree[<< >>].visits < MaxCalls
    /\ \E n \in DOMAIN tree : \E r \in Results :
          /\ tree' = backpropagate(tree, n, r)
          /\ bp' = [known |-> TRUE, node |-> n, result |-> r, before |-> tree]
    /\ UNCHANGED <<kd, ev, engine, use_quiescence, rollout_depth, note, seen, other, rollout,
                   persp, batch, objs, pc, nodes_searched, budget, clock, depth, legal, nested,
                   LoopVars, IdVars, iterations, result, root, entered>>

\* MCTSEngine.search, lines 188-189, on the tree as it stands
final_choice ==
    /\ Idle
    /\ tree # << >>
    /\ tree[<< >>].children # << >>
    /\ pc' = "returned"
    /\ result' = most_visited(tree, 1, 0, None)
    /\ UNCHANGED <<Config, objs, nodes_searched, budget, clock, depth, legal, nested,
                   LoopVars, IdVars, MctsVars, root, entered>>

InitTree == InitOf({<<<<"play2", "mate">>, <<0, 0, 0>>>>}, {"mcts"})

NextTree ==
    \/ make_root
    \/ attach_child
    \/ backpropagate_call
    \/ final_choice

SpecTree == InitTree /\ [][NextTree]_vars

(***************************************************************************)
(* Evaluator.evaluate_from_perspective on the state of any position of the *)
(* tree, for either color.                                                 *)
(***************************************************************************)
\* Evaluator.evaluate_from_perspective(state, color) for the state of position
\* p; color is True for white and False for black
evaluate_from_perspective(p, color) ==
    LET score == evaluate(p)
    IN  IF ~color /\ turn(p) = "white" THEN -score ELSE score

perspective_call ==
    /\ ~persp.known
    /\ \E p \in Reach(<< >>) : \E color \in BOOLEAN :
          persp' = [known |-> TRUE, state |-> p, color |-> color,
                    out |-> evaluate_from_perspective(p, color)]
    /\ UNCHANGED <<SearchVars, note, seen, other, rollout, bp, batch>>

InitPerspective == InitOf(RepeatTrees, {"minimax"})

NextPerspective == perspective_call

SpecPerspective == InitPerspective /\ [][NextPerspective]_vars

(***************************************************************************)
(* GameRecordBatch: records of games between agents are added, and         *)
(* get_win_rate is asked for an agent.  A rate is kept as a fraction       *)
(* [num, den]; wins are counted in halves.                                 *)
(***************************************************************************)
AgentNames == {"a", "b", "c"}
\* GameRecord.result: None while the game has no result
NoResult == "None"
GameResults == {NoResult, "white_win", "black_win", "draw"}
\* records of games between two agents
GameRecords ==
    {r \in [white_agent : AgentNames, black_agent : AgentNames, result : GameResults] :
        r.white_agent # r.black_agent}

RECURSIVE win_rate_loop(_, _, _, _, _)
\* get_win_rate, the loop of lines 295-309 from the i-th record on: wins (in
\* halves) and total
win_rate_loop(records, agent_name, i, wins, total) ==
    IF i > Len(records) THEN [wins |-> wins, total |-> total]
    ELSE LET record == records[i]
         IN  IF record.result = NoResult
             THEN win_rate_loop(records, agent_name, i + 1, wins, total)
             ELSE IF agent_name = record.white_agent
             THEN win_rate_loop(records, agent_name, i + 1,
                                wins + (CASE record.result = "white_win" -> 2
                                          [] record.result = "draw" -> 1
                                          [] OTHER -> 0), total + 1)
             ELSE IF agent_name = record.black_agent
             THEN win_rate_loop(records, agent_name, i + 1,
                                wins + (CASE record.result = "black_win" -> 2
                                          [] record.result = "draw" -> 1
                                          [] OTHER -> 0), total + 1)
             ELSE win_rate_loop(records, agent_name, i + 1, wins, total + 1)

\* GameRecordBatch.get_win_rate(agent_name)
get_win_rate(records, agent_name) ==
    IF records = << >> THEN [num |-> 0, den |-> 1]
    ELSE LET r == win_rate_loop(records, agent_name, 1, 0, 0)
         IN  IF r.total > 0 THEN [num |-> r.wins, den |-> 2 * r.total]
             ELSE [num |-> 0, den |-> 1]

\* GameRecordBatch.add(record)
add_record ==
    /\ Len(batch.records) < MaxRecords
    /\ \E record \in GameRecords :
          batch' = [NoBatch EXCEPT !.records = Append(batch.records, record)]
    /\ UNCHANGED <<SearchVars, note, seen, other, rollout, bp, persp>>

\* batch.get_win_rate(agent_name)
win_rate_call ==
    /\ ~batch.known
    /\ \E agent_name \in AgentNames :
          batch' = [batch EXCEPT !.known = TRUE, !.agent = agent_name,
                                 !.rate = get_win_rate(batch.records, agent_name)]
    /\ UNCHANGED <<SearchVars, note, seen, other, rollout, bp, persp>>

InitRecords == InitOf({<<[i \in KindSlots |-> "play2"], <<0, 0, 0>>>>}, {"minimax"})

NextRecords ==
    \/ add_record
    \/ win_rate_call

SpecRecords == InitRecords /\ [][NextRecords]_vars

(***************************************************************************)
(* The notation calls on their own: str(m) of a move, from_uci of the      *)
(* string it gave (the round trip), from_uci of an arbitrary string.       *)
(***************************************************************************)
\* str(m) for a ChessMove m
move_to_str ==
    /\ note.op = "none"
    /\ \E m \in ChessMoves :
          note' = [op |-> "str", move |-> m, text |-> str(m), raised |-> FALSE, out |-> NoMove]
    /\ UNCHANGED <<Apart, SearchVars, seen, other, rollout>>

\* ChessMove.from_uci(str(m)) of the move m just written
round_trip ==
    /\ note.op = "str"
    /\ note' = [note EXCEPT !.op = "round_trip",
                             !.raised = from_uci(note.text).raised,
                             !.out = from_uci(note.text).move]
    /\ UNCHANGED <<Apart, SearchVars, seen, other, rollout>>

\* ChessMove.from_uci(uci) for a string uci
parse_text ==
    /\ note.op = "none"
    /\ \E uci \in Texts :
          note' = [op |-> "from_uci", move |-> NoMove, text |-> uci,
                   raised |-> from_uci(uci).raised, out |-> from_uci(uci).move]
    /\ UNCHANGED <<Apart, SearchVars, seen, other, rollout>>

InitNotation == InitOf({<<[i \in KindSlots |-> "play2"], <<0, 0, 0>>>>}, {"minimax"})

NextNotation ==
    \/ move_to_str
    \/ round_trip
    \/ parse_text

SpecNotation == InitNotation /\ [][NextNotation]_vars

(***************************************************************************)
(* Properties                                                              *)
(***************************************************************************)
Started == pc # "idle"
\* no position of the tree has a knight promotion, so step() never raises
NoPromo == \A i \in KindSlots : kd[i] # "promo2"

RECURSIVE Negamax(_, _)
\* unpruned negamax of position p to depth d, scored from the side to move
Negamax(p, d) ==
    IF d = 0 \/ is_game_over(p) \/ legal_moves(p) = << >> THEN evaluate(p)
    ELSE LET vals == { -Negamax(step(p, legal_moves(p)[i]), d - 1) :
                         i \in 1..Len(legal_moves(p)) }
         IN  CHOOSE v \in vals : \A w \in vals : v >= w

\* score of the i-th root move by unpruned negamax
NegamaxScore(p, d, i) == -Negamax(step(p, legal_moves(p)[i]), d - 1)

\* the earliest root move with the greatest unpruned negamax score
NegamaxBest(p, d) ==
    CHOOSE i \in 1..Len(legal_moves(p)) :
        /\ \A j \in 1..Len(legal_moves(p)) : NegamaxScore(p, d, i) >= NegamaxScore(p, d, j)
        /\ \A j \in 1..(i - 1) : NegamaxScore(p, d, j) < NegamaxScore(p, d, i)

\* C1: with quiescence off and unlimited time, the move MinimaxEngine.search
\* returns for a depth >= 1, and the score it gives that move, are those of an
\* unpruned full negamax of the same tree to the same depth.
C1_AlphaBetaIsNegamax ==
    (/\ pc = "returned" /\ engine = "minimax" /\ ~use_quiescence /\ NoPromo
     /\ budget = Inf /\ depth >= 1 /\ Len(legal_moves(root)) >= 2)
    => /\ result = legal_moves(root)[NegamaxBest(root, depth)]
       /\ best_score = NegamaxScore(root, depth, NegamaxBest(root, depth))

\* C2: during and after every search call, returned or raised, the caller's
\* game object is in the position it had when the call was made.
C2_CallerGameUntouched == Started => objs.game = root

\* C2 witness: a call raised after the engine had made moves on its clone
C2_Witness == pc = "raised" /\ Len(objs.cloned) > Len(root) /\ objs.game = root

\* C3: on a root that is not game over and has two legal moves or more, a
\* search call that has ended has returned a move, whatever the time budget.
C3_TimeoutNeverFails ==
    (/\ Ended /\ NoPromo /\ ~is_game_over(root) /\ Len(legal_moves(root)) >= 2)
    => pc = "returned" /\ result # None

\* C4: after k completed MCTS iterations from a root with m > 1 legal moves the
\* root has min(k, m) expanded children.
C4_RootBranches ==
    (pc = "mcts_loop" /\ Len(legal) > 1)
    => Len(tree[<< >>].children) = Min(iterations, Len(legal))

\* some move of p checkmates
MateInOne(p) ==
    \E i \in 1..Len(legal_moves(p)) : is_checkmate(step(p, legal_moves(p)[i]))

\* C5: when the side to move has a mate in one, MinimaxEngine.search at depth
\* >= 2 with unlimited time returns a mating move, and the score the recursion
\* gave the mated position is at most -MATE_BASE + 1.
C5_MateInOneFound ==
    (/\ pc = "returned" /\ engine = "minimax" /\ NoPromo /\ budget = Inf
     /\ depth >= 2 /\ Len(legal_moves(root)) >= 2 /\ MateInOne(root))
    => /\ is_checkmate(step(root, result))
       /\ \A i \in 1..Len(scored) :
             (legal[i] = result) => -scored[i].score <= -MATE_BASE + 1

\* C6: the recursion of MinimaxEngine scores a stalemate position exactly 0,
\* whatever the evaluator says of it.
C6_StalemateScoresZero ==
    (engine = "minimax" /\ pc \in {"mm_loop", "returned"})
    => \A i \in 1..Len(scored) :
          PosType(step(root, legal[i])) = "stale" => scored[i].score = 0

\* C7: search on a position without legal moves raises: no move is returned
\* and the node count is 0.
C7_NoLegalMovesRaises ==
    (Started /\ legal_moves(root) = << >>)
    => pc = "raised" /\ result = None /\ nodes_searched = 0 /\ iterations = 0

\* C7 witness: a call on a position without legal moves has raised
C7_Witness == pc = "raised" /\ legal_moves(root) = << >> /\ root # << >>

\* C8: search never returns a move for a root that is game over, with or
\* without legal moves.
C8_TerminalRootRejected == pc = "returned" => ~is_game_over(root)

\* C9 as claimed: on every position with exactly one legal move, search returns
\* that move and explores nothing.
C9_SingleMoveReturned ==
    (Started /\ Len(legal_moves(root)) = 1)
    => /\ pc = "returned" /\ result = legal_moves(root)[1]
       /\ nodes_searched = 0 /\ clock = 0 /\ iterations = 0

\* C9 amended: on every position that is not game over and has exactly one
\* legal move, search returns that move without a negamax call or an MCTS
\* iteration, and the node count is 0.
C9_SingleMoveReturnedInPlay ==
    (Started /\ Len(legal_moves(root)) = 1 /\ ~is_game_over(root))
    => /\ pc = "returned" /\ result = legal_moves(root)[1]
       /\ nodes_searched = 0 /\ clock = 0 /\ iterations = 0

\* C9 witness: the only move of a position still in play was returned, with
\* the engine holding a node count from an earlier call set back to 0
C9_Witness ==
    /\ pc = "returned" /\ Len(legal_moves(root)) = 1 /\ ~is_game_over(root)
    /\ root # << >> /\ result = legal_moves(root)[1]

\* C10: IterativeDeepeningMinimax.search returns the move of the deepest
\* iteration that ran to completion before the deadline, and the first legal
\* move if none did.
C10_DeepestCompletedKept ==
    (pc = "returned" /\ engine = "id" /\ Len(legal_moves(root)) >= 2)
    => result = (IF done_depth.depth > 0 THEN done_depth.move
                 ELSE legal_moves(root)[1])

\* the MCTS tree of the running or returned call exists
HasTree == engine = "mcts" /\ pc \in {"mcts_loop", "returned", "raised"} /\ << >> \in DOMAIN tree

\* C11: after every number of completed MCTS iterations on a root with two
\* legal moves or more, the visit count of the root is that number, and no
\* node has more visits than its parent.
C11_VisitAccounting ==
    (HasTree /\ Len(legal) >= 2)
    => /\ tree[<< >>].visits = iterations
       /\ \A q \in DOMAIN tree :
             q # << >> => tree[q].visits <= tree[Front(q)].visits

\* C11 witness: three iterations done, the tree two plies deep
C11_Witness ==
    /\ HasTree /\ Len(legal) >= 2 /\ iterations >= 3
    /\ tree[<< >>].visits = iterations
    /\ \E q \in DOMAIN tree : Len(q) = 2 /\ tree[q].visits >= 1

\* C12: for every ChessMove m with promotion None, queen, rook, bishop or
\* knight, from_uci(str(m)) is m.
C12_RoundTrip ==
    note.op = "round_trip" => ~note.raised /\ note.out = note.move

\* uci is a from-square and a to-square, then nothing or one of q, r, b, n
WellFormed(uci) ==
    /\ Len(uci) \in {4, 5}
    /\ uci[1] \in {"a", "b", "c", "d", "e", "f", "g", "h"}
    /\ uci[2] \in {"1", "2", "3", "4", "5", "6", "7", "8"}
    /\ uci[3] \in {"a", "b", "c", "d", "e", "f", "g", "h"}
    /\ uci[4] \in {"1", "2", "3", "4", "5", "6", "7", "8"}
    /\ Len(uci) = 5 => uci[5] \in {"q", "r", "b", "n"}

\* C17: from_uci raises for every string that is not well formed; it returns
\* a ChessMove for none of them.
C17_MalformedRejected ==
    (note.op = "from_uci" /\ ~WellFormed(note.text)) => note.raised

\* the errors search raises without having applied a move: the root has no
\* legal move or (MCTS) is game over; MCTS ran no iteration at all
EntryError == legal_moves(root) = << >> \/ (engine = "mcts" /\ is_game_over(root))
NoIterationError == engine = "mcts" /\ budget = 0

\* C13: step() accepts every move the engines apply during a search, so a
\* search that raised did so at its entry, never on a move in mid-search.
C13_NoIllegalMoveMidSearch == pc = "raised" => EntryError \/ NoIterationError

\* C14: when a search call of MinimaxEngine or IterativeDeepeningMinimax has
\* returned, nodes_searched is the number of _minimax and _quiescence_search
\* entries made during the whole call.
C14_NodeCountIsWholeCall ==
    (pc = "returned" /\ engine \in {"minimax", "id"}) => nodes_searched = entered

\* this call has the position and depth argument of the call kept in seen
SameCall == seen.known /\ seen.root = root /\ seen.param = depth_param

\* C15: a run of MinimaxEngine.search or IterativeDeepeningMinimax.search with
\* unlimited time returns the move and leaves the node count of an earlier
\* run with the same position, evaluator, quiescence setting and depth
\* argument, whatever the engine searched in between.
C15_Deterministic ==
    (pc = "returned" /\ budget = Inf /\ SameCall)
    => result = seen.move /\ nodes_searched = seen.nodes

\* C15 witness: a second run of a search of two root moves or more has
\* returned what the first did
C15_Witness ==
    /\ pc = "returned" /\ budget = Inf /\ SameCall /\ Len(legal) >= 2
    /\ seen.nodes > 0 /\ result = seen.move /\ nodes_searched = seen.nodes

\* what MinimaxEngine.search returns on p to depth d, and the node count it
\* leaves, when no other call runs on the engine (under the present budget)
search_alone(p, d) == search_rest(p, d, 0, 0)

\* C16: a search call whose steps interleave with those of another call on
\* the same root returns the move, and leaves the node count, of the same
\* call run alone (here: both calls were given the same time limit).
C16_ConcurrentCallsIndependent ==
    (pc = "returned" /\ engine = "minimax" /\ other.pc # "none" /\ other.own = budget)
    => /\ result = search_alone(root, depth).move
       /\ nodes_searched = search_alone(root, depth).nodes

\* the root moves scored without a deadline test expiring in their subtree
Complete == {i \in 1..Len(scored) : ~scored[i].cut}

\* the earliest of them with the greatest score
BestComplete ==
    CHOOSE i \in Complete :
        /\ \A j \in Complete : scored[i].score >= scored[j].score
        /\ \A j \in Complete : j < i => scored[j].score < scored[i].score

\* C18: when the deadline has passed during MinimaxEngine.search, the move
\* returned is the best of the root moves whose subtrees were searched
\* completely; a root move cut short by the timeout never changes it.
C18_BestOfCompleteMoves ==
    (/\ pc = "returned" /\ engine = "minimax" /\ NoPromo /\ Len(legal) >= 2
     /\ clock > budget /\ Complete # {})
    => result = legal[BestComplete]

\* C19: once the deadline has passed, no _minimax or _quiescence_search call
\* entered afterwards evaluates a position or recurses, and MCTSEngine starts
\* no iteration: no _quiescence_search entry comes after the last deadline
\* test that passes, and MCTS runs one iteration per test passed.
C19_NothingAfterDeadline ==
    /\ \A i \in 1..Len(scored) : ~scored[i].late
    /\ engine = "mcts" => iterations <= budget

\* the result of a rollout from position p that ended in the terminal
\* position e, for the player to move in p: won, lost or drawn
ResultForStarter(p, e) ==
    CASE game_result(e) = "draw" -> 0
      [] game_result(e) = "white_win" -> (IF turn(p) = "white" THEN 1000 ELSE -1000)
      [] game_result(e) = "black_win" -> (IF turn(p) = "black" THEN 1000 ELSE -1000)

\* C20: a rollout, random or by evaluation, that ends in a terminal position
\* gives +1 when the player to move at its start won, -1 when that player
\* lost, and 0 for a draw.
C20_RolloutResultForStarter ==
    (rollout.kind # "none" /\ is_game_over(rollout.end))
    => rollout.result = ResultForStarter(rollout.start, rollout.end)

\* the nodes from n up to the root along the parent fields, each with the
\* number of steps it lies above n
RECURSIVE Chain(_, _, _)
Chain(t, n, k) ==
    IF t[n].parent = NoParent THEN {<<n, k>>}
    ELSE {<<n, k>>} \cup Chain(t, t[n].parent, k + 1)

\* C21: one backpropagation with result r started at node n adds 1 to visits of
\* n and of every ancestor of n up to the root, adds r to the value of n, -r to
\* its parent's, +r to the grandparent's and so on, and leaves visits and value
\* of every node off that path as they were.
C21_BackpropagationFrame ==
    bp.known =>
        LET path == Chain(bp.before, bp.node, 0)
        IN  /\ DOMAIN tree = DOMAIN bp.before
            /\ \A q \in DOMAIN tree :
                  IF \E k \in 0..Len(bp.node) : <<q, k>> \in path
                  THEN LET k == CHOOSE j \in 0..Len(bp.node) : <<q, j>> \in path
                       IN  /\ tree[q].visits = bp.before[q].visits + 1
                           /\ tree[q].value = bp.before[q].value
                                               + (IF k % 2 = 0 THEN bp.result ELSE -bp.result)
                  ELSE /\ tree[q].visits = bp.before[q].visits
                       /\ tree[q].value = bp.before[q].value

\* a backpropagation has run from a node two levels below the root, in a tree
\* in which a node off its path had been updated by an earlier one
C21_Witness ==
    /\ bp.known
    /\ Len(bp.node) = 2
    /\ bp.result # 0
    /\ tree[bp.node].value # -tree[Front(bp.node)].value
    /\ \E q \in DOMAIN tree :
          /\ \A k \in 0..2 : <<q, k>> \notin Chain(tree, bp.node, 0)
          /\ tree[q].visits = 1 /\ tree[q].value # 0

\* the children of the root node, in the order they were created
RootChildren == [i \in 1..Len(tree[<< >>].children) |-> tree[<< tree[<< >>].children[i] >>]]

\* C22: when MCTSEngine.search returns after at least one iteration, the move
\* returned is the move of a root child with the greatest visit count of all
\* root children, and of the children with that count the one created first.
C22_MostVisitedFirstCreated ==
    (engine = "mcts" /\ pc = "returned" /\ tree # << >> /\ tree[<< >>].children # << >>) =>
        \E i \in 1..Len(RootChildren) :
            /\ result = RootChildren[i].move
            /\ \A j \in 1..Len(RootChildren) : RootChildren[j].visits <= RootChildren[i].visits
            /\ \A j \in 1..(i - 1) : RootChildren[j].visits < RootChildren[i].visits

\* the choice was made between two root children with the same visit count
C22_Witness ==
    /\ engine = "mcts" /\ pc = "returned" /\ tree # << >>
    /\ Len(RootChildren) = 2
    /\ RootChildren[1].visits = RootChildren[2].visits
    /\ RootChildren[1].visits >= 1
    /\ result = RootChildren[1].move

\* the color evaluate_from_perspective is asked for
AskedColor == IF persp.color THEN "white" ELSE "black"

\* C23: evaluate_from_perspective(state, color) is evaluate(state) when color
\* is the side to move in state and -evaluate(state) when it is the other side.
C23_PerspectiveOfColor ==
    persp.known =>
        persp.out = (IF AskedColor = turn(persp.state)
                     THEN evaluate(persp.state) ELSE -evaluate(persp.state))

\* C24: whenever search of one of the three engines returns a value, the value
\* is one of the legal moves of the caller's root position: it is never None
\* and never a move of a deeper position.
C24_ReturnsRootMove ==
    pc = "returned" =>
        /\ result # None
        /\ \E i \in 1..Len(legal_moves(root)) : result = legal_moves(root)[i]

\* iterative deepening returned without a move of any depth and fell back on
\* the first of several legal moves of the root
C24_Witness ==
    /\ pc = "returned" /\ engine = "id"
    /\ id_best = None
    /\ Len(legal_moves(root)) >= 2
    /\ result = legal_moves(root)[1]

\* the positions at most k plies below position p
Below(p, k) == {q \in Reach(p) : q # p /\ Len(q) - Len(p) <= k}

\* the plies the recursion may go below the root for depth limit d
PliesFor(d) == Max(d, 1) + (IF use_quiescence THEN QUIESCENCE_DEPTH ELSE 0)

\* C25: for every depth limit d given to MinimaxEngine.search, d <= 0 included,
\* the remaining depth handed to the recursion is never negative, and with
\* unlimited time the recursion enters no position more than max(d, 1) plies
\* (and 4 quiescence plies) below the root: every entry is made at one of
\* those positions, once by _minimax and, with quiescence, once more by
\* _quiescence_search.
C25_DepthNeverNegative ==
    (engine = "minimax" /\ budget = Inf /\ pc \in {"mm_loop", "returned"}) =>
        /\ (Len(legal) >= 2 => depth - 1 >= 0)
        /\ entered <= Cardinality(Below(root, PliesFor(depth)))
                         * (IF use_quiescence THEN 2 ELSE 1)

\* a call of MinimaxEngine.search with quiescence off, unlimited time and a
\* depth of at least 1 ran its root loop to the end
PlainCallDone ==
    /\ engine = "minimax" /\ ~use_quiescence /\ budget = Inf /\ depth >= 1
    /\ Len(legal) >= 2
    /\ pc \in {"returned", "raised"}

BetweenIterations == HasTree /\ pc \in {"mcts_loop", "returned"}

\* the elements of a sequence
Elements(sq) == {sq[i] : i \in 1..Len(sq)}

\* the moves the children of node q are stored under
ChildMoves(q) == {tree[Append(q, c)].move : c \in Elements(tree[q].children)}

\* C27: between MCTS iterations, for every node that is not terminal the keys
\* of children and the entries of untried_moves are disjoint and together are
\* exactly the legal moves of the node's position; every child stored under a
\* key has that move and the node as its parent; terminal nodes have no
\* children.
C27_ChildrenAndUntriedPartition ==
    BetweenIterations =>
        \A q \in DOMAIN tree :
            /\ ~tree[q].is_terminal =>
                  /\ ChildMoves(q) \cap Elements(tree[q].untried_moves) = {}
                  /\ ChildMoves(q) \cup Elements(tree[q].untried_moves)
                        = Elements(legal_moves(root \o q))
                  /\ Len(tree[q].children) + Len(tree[q].untried_moves)
                        = Len(legal_moves(root \o q))
            /\ \A c \in Elements(tree[q].children) :
                  /\ Append(q, c) \in DOMAIN tree
                  /\ tree[Append(q, c)].move.sq = c
                  /\ tree[Append(q, c)].parent = q
            /\ tree[q].is_terminal => tree[q].children = << >>

\* between two iterations a node below the root has a child and an untried
\* move, and a terminal node is in the tree
C27_Witness ==
    /\ BetweenIterations
    /\ \E q \in DOMAIN tree :
          /\ q # << >> /\ ~tree[q].is_terminal
          /\ tree[q].children # << >> /\ tree[q].untried_moves # << >>
    /\ \E q \in DOMAIN tree : tree[q].is_terminal /\ tree[q].visits >= 1

\* the sum of the visits of the children of node q, from the i-th child on
RECURSIVE ChildVisits(_, _)
ChildVisits(q, i) ==
    IF i > Len(tree[q].children) THEN 0
    ELSE tree[Append(q, tree[q].children[i])].visits + ChildVisits(q, i + 1)

\* C28: after every completed MCTS iteration every node of the tree has
\* visits >= 1, the visits of the root are the sum of the visits of its
\* children, and the visits of every other node that is not terminal are 1
\* plus the sum of the visits of its children; a node with visits = 0 and
\* value # 0 never exists.
C28_VisitSums ==
    /\ (BetweenIterations /\ iterations >= 1) =>
          \A q \in DOMAIN tree :
              /\ tree[q].visits >= 1
              /\ q = << >> => tree[q].visits = ChildVisits(q, 1)
              /\ (q # << >> /\ ~tree[q].is_terminal) =>
                    tree[q].visits = 1 + ChildVisits(q, 1)
    /\ HasTree => \A q \in DOMAIN tree : tree[q].visits = 0 => tree[q].value = 0

\* after three iterations or more a node below the root has been visited more
\* often than it has children
C28_Witness ==
    /\ BetweenIterations /\ iterations >= 3
    /\ \E q \in DOMAIN tree :
          /\ q # << >> /\ ~tree[q].is_terminal
          /\ tree[q].visits >= 3
          /\ tree[q].visits = 1 + ChildVisits(q, 1)

\* the nodes best_child is called on when a selection starts at node q of
\* tree t (lines 203-205)
RECURSIVE SelectionPath(_, _)
SelectionPath(t, q) ==
    IF descend(t, q)
    THEN LET c == best_child(t, q, exploration_weight)
         IN  IF c = NoChild THEN {q} ELSE {q} \cup SelectionPath(t, Append(q, c))
    ELSE {}

\* C29: whenever best_child is called during selection, the node has a child
\* or more and visits >= 1, every child with visits > 0 has no more visits
\* than the node, so that the logarithm and the division of the UCT formula
\* are defined, and best_child does not return None.
C29_BestChildDefined ==
    (HasTree /\ pc = "mcts_loop") =>
        \A q \in SelectionPath(tree, << >>) :
            /\ Len(tree[q].children) >= 1
            /\ tree[q].visits >= 1
            /\ \A c \in Elements(tree[q].children) :
                  tree[Append(q, c)].visits > 0 =>
                      /\ tree[Append(q, c)].visits >= 1
                      /\ tree[q].visits >= tree[Append(q, c)].visits
            /\ best_child(tree, q, exploration_weight) # NoChild

\* a selection is about to call best_child on the root and on a node below
\* it that has been visited more often than its child
C29_Witness ==
    /\ HasTree /\ pc = "mcts_loop"
    /\ \E q \in SelectionPath(tree, << >>) :
          /\ q # << >>
          /\ \E c \in Elements(tree[q].children) :
                tree[Append(q, c)].visits >= 1 /\ tree[q].visits > tree[Append(q, c)].visits
          /\ best_child(tree, q, exploration_weight) # NoChild

\* the finished games of the batch the agent played in, as white or as black
PlayedBy(agent) ==
    {i \in 1..Len(batch.records) :
        /\ batch.records[i].result # NoResult
        /\ agent \in {batch.records[i].white_agent, batch.records[i].black_agent}}

\* what game i counts for the agent, in halves: 2 when won, 1 when drawn
PointsOf(agent, i) ==
    LET r == batch.records[i]
    IN  CASE r.result = "draw" -> 1
          [] r.result = "white_win" /\ r.white_agent = agent -> 2
          [] r.result = "black_win" /\ r.black_agent = agent -> 2
          [] OTHER -> 0

RECURSIVE PointsIn(_, _)
PointsIn(agent, games) ==
    IF games = {} THEN 0
    ELSE LET i == CHOOSE j \in games : TRUE
         IN  PointsOf(agent, i) + PointsIn(agent, games \ {i})

\* C30: get_win_rate(agent) is (games the agent won + half of the games the
\* agent drew) divided by the number of finished games the agent played in,
\* as white or as black; finished games between other agents in the batch do
\* not change it.
C30_WinRateOverOwnGames ==
    (batch.known /\ PlayedBy(batch.agent) # {}) =>
        batch.rate.num * (2 * Cardinality(PlayedBy(batch.agent)))
            = PointsIn(batch.agent, PlayedBy(batch.agent)) * batch.rate.den

====
